---- MODULE Spec2Model ----
(***************************************************************************)
(* A model of django-vellum's blog application: the blog settings module   *)
(* (basic/blog/settings.py) and the Post model's save() and excerpt        *)
(* (basic/blog/models.py).                                                 *)
(*                                                                         *)
(* Python values are encoded as follows.  A text is a sequence of tokens   *)
(* (strings); the empty text is <<>>.  None and False, which share fields  *)
(* and return values with texts, are the reserved one-token sequences      *)
(* PyNone and PyFalse.  A call's outcome is a record [kind, val]: kind     *)
(* "ok" with the returned value, or kind "raise" with the exception name.  *)
(***************************************************************************)
EXTENDS Integers, Sequences, FiniteSets

VARIABLES
    conf,        \* django.conf.settings: the deployment configuration
    site,        \* Site.objects.get_current().name, a database row
    loaded,      \* basic.blog.settings has been imported
    blog,        \* the module attributes of basic.blog.settings
    siteAtLoad,  \* the site name the import of basic.blog.settings saw
    got,         \* the last read of an attribute of basic.blog.settings
    post,        \* the fields of the Post instance in memory
    db,          \* the persisted rows of blog_posts (written by Model.save)
    last         \* the last operation on the Post instance and its outcome

vars == <<conf, site, loaded, blog, siteAtLoad, got, post, db, last>>

----------------------------------------------------------------------------
(* Python values *)

PyNone == <<"None">>
PyFalse == <<"False">>

Ok(v) == [kind |-> "ok", val |-> v]
Raise(e) == [kind |-> "raise", val |-> e]

\* Truth value of a text, None or False (bool(x)).
Truthy(x) == x # PyNone /\ x # PyFalse /\ x # <<>>

----------------------------------------------------------------------------
(* The deployment configuration.  Each option is either absent or set. *)

Absent(placeholder) == [set |-> FALSE, val |-> placeholder]
Present(v) == [set |-> TRUE, val |-> v]

\* The options basic/blog/settings.py resolves.
Recognized ==
    {"BLOG_NAME", "BLOG_DESCRIPTION", "BLOG_PAGESIZE", "BLOG_FEEDSIZE",
     "BLOG_EXCERPTS", "BLOG_FEEDEXCERPTS", "BLOG_WMD"}

\* The options Post.save and Post.excerpt consult.
Consulted == {"BLOG_SMARTYPANTS", "BLOG_AUTOEXCERPTS", "BLOG_CONTINUE"}

SiteNames == {"example.com", "Vellum"}

\* Deployments that vary in the options settings.py resolves.
ResolverConfigs ==
    [BLOG_NAME : {Absent(""), Present("My Blog")},
     BLOG_DESCRIPTION : {Absent(""), Present("Notes")},
     BLOG_PAGESIZE : {Absent(0), Present(20)},
     BLOG_FEEDSIZE : {Absent(0), Present(7)},
     BLOG_EXCERPTS : {Absent(FALSE), Present(TRUE), Present(FALSE)},
     BLOG_FEEDEXCERPTS : {Absent(FALSE), Present(TRUE), Present(FALSE)},
     BLOG_WMD : {Absent(FALSE), Present(TRUE)},
     BLOG_SMARTYPANTS : {Absent(FALSE)},
     BLOG_AUTOEXCERPTS : {Absent(0)},
     BLOG_CONTINUE : {Absent("")}]

\* Deployments that vary in the options save() and excerpt consult.
RendererConfigs ==
    [BLOG_NAME : {Absent("")},
     BLOG_DESCRIPTION : {Absent("")},
     BLOG_PAGESIZE : {Absent(0)},
     BLOG_FEEDSIZE : {Absent(0)},
     BLOG_EXCERPTS : {Absent(FALSE)},
     BLOG_FEEDEXCERPTS : {Absent(FALSE)},
     BLOG_WMD : {Absent(FALSE)},
     BLOG_SMARTYPANTS : {Absent(FALSE), Present(TRUE), Present(FALSE)},
     BLOG_AUTOEXCERPTS : {Absent(0), Present(0), Present(2)},
     BLOG_CONTINUE : {Absent(""), Present("Read more")}]

----------------------------------------------------------------------------
(* basic/blog/settings.py *)

\* getattr(settings, name, default)
getattr(c, name, default) == IF c[name].set THEN c[name].val ELSE default

DefaultDescription == "A basic Django blog"
DefaultPageSize == 12

BLOG_NAME(c, s) == getattr(c, "BLOG_NAME", s)
BLOG_DESCRIPTION(c) == getattr(c, "BLOG_DESCRIPTION", DefaultDescription)
BLOG_PAGESIZE(c) == getattr(c, "BLOG_PAGESIZE", DefaultPageSize)

BLOG_FEEDSIZE_literal(c) == getattr(c, "BLOG_FEEDSIZE", DefaultPageSize)
BLOG_FEEDSIZE(c) == getattr(c, "BLOG_FEEDSIZE", BLOG_PAGESIZE(c))

BLOG_EXCERPTS(c) == getattr(c, "BLOG_EXCERPTS", FALSE)
BLOG_FEEDEXCERPTS(c) == getattr(c, "BLOG_FEEDEXCERPTS", BLOG_EXCERPTS(c))
BLOG_WMD(c) == getattr(c, "BLOG_WMD", FALSE)

\* The namespace the module body leaves behind, run against configuration c
\* while the current site is named s.
SettingsModule(c, s) ==
    [BLOG_NAME |-> BLOG_NAME(c, s),
     BLOG_DESCRIPTION |-> BLOG_DESCRIPTION(c),
     BLOG_PAGESIZE |-> BLOG_PAGESIZE(c),
     BLOG_FEEDSIZE |-> BLOG_FEEDSIZE(c),
     BLOG_EXCERPTS |-> BLOG_EXCERPTS(c),
     BLOG_FEEDEXCERPTS |-> BLOG_FEEDEXCERPTS(c),
     BLOG_WMD |-> BLOG_WMD(c)]

\* Before the import the module has no attributes.
Unloaded == [BLOG_NAME |-> "", BLOG_DESCRIPTION |-> "", BLOG_PAGESIZE |-> 0,
             BLOG_FEEDSIZE |-> 0, BLOG_EXCERPTS |-> FALSE,
             BLOG_FEEDEXCERPTS |-> FALSE, BLOG_WMD |-> FALSE]

\* settings.<name> resolved against the configuration and the site name of
\* the moment of the read, as a resolver without module-level capture would.
SettingsAttrLive(name) ==
    IF name \in DOMAIN SettingsModule(conf, site)
    THEN Ok(SettingsModule(conf, site)[name])
    ELSE Raise("AttributeError")

\* settings.<name>: an attribute read of the imported module.
SettingsAttr(name) ==
    IF name \in DOMAIN blog THEN Ok(blog[name]) ELSE Raise("AttributeError")

NoRead == [name |-> "", kind |-> "none", val |-> "", site |-> ""]

\* import basic.blog.settings: the module body runs once.
LoadSettings ==
    /\ ~loaded
    /\ loaded' = TRUE
    /\ blog' = SettingsModule(conf, site)
    /\ siteAtLoad' = site
    /\ UNCHANGED <<conf, site, got, post, db, last>>

\* An administrator renames the current site (a row of django_site).
RenameSite ==
    /\ \E s \in SiteNames \ {site} : site' = s
    /\ UNCHANGED <<conf, loaded, blog, siteAtLoad, got, post, db, last>>

\* A view, feed or template reads settings.<name>.
ReadOption ==
    /\ loaded
    /\ \E name \in Recognized \cup Consulted :
          got' = [name |-> name, kind |-> SettingsAttr(name).kind,
                  val |-> SettingsAttr(name).val, site |-> site]
    /\ UNCHANGED <<conf, site, loaded, blog, siteAtLoad, post, db, last>>

----------------------------------------------------------------------------
(* Texts *)

MaxLen == 3

Sample == <<"inl", "q", "mk", "w">>
SampleTok(i) == Sample[((i - 1) % Len(Sample)) + 1]

\* The raw texts an author enters: the prefixes of the sample text, which
\* holds an inline shortcut, a plain quote, markup syntax and a word; and a
\* text whose inline shortcut cannot be expanded.
RawTexts == {[i \in 1..n |-> SampleTok(i)] : n \in 0..MaxLen} \cup {<<"bad">>}

\* A value typed directly into a rendered field (both are editable).
Authored == <<"authored">>

HasToken(text, tok) == \E i \in 1..Len(text) : text[i] = tok

----------------------------------------------------------------------------
(* The rendering stages *)

\* basic.inlines.parser.inlines: each inline shortcut becomes its HTML.
InlineToken(t) == IF t = "inl" THEN "obj" ELSE t
inlines(text) ==
    IF HasToken(text, "bad") THEN Raise("InlineError")
    ELSE Ok([i \in 1..Len(text) |-> InlineToken(text[i])])

\* django_markup.markup.formatter: the filter registered under filter_name.
\* Markup syntax becomes HTML; an inline shortcut still unexpanded is taken
\* for text and its whitespace rewritten.
MarkdownToken(t) == IF t = "mk" THEN "em" ELSE IF t = "inl" THEN "txt" ELSE t
TextileToken(t) == IF t = "mk" THEN "strong" ELSE IF t = "inl" THEN "txt" ELSE t
SmartypantsToken(t) == IF t = "q" THEN "cq" ELSE t
formatter(text, filter_name) ==
    CASE filter_name = "markdown" ->
            Ok([i \in 1..Len(text) |-> MarkdownToken(text[i])])
      [] filter_name = "textile" ->
            Ok([i \in 1..Len(text) |-> TextileToken(text[i])])
      [] filter_name = "smartypants" ->
            Ok([i \in 1..Len(text) |-> SmartypantsToken(text[i])])
      [] OTHER -> Raise("ValueError")

\* The values of Post.markup: two registered filters and an unregistered one.
MarkupNames == {"markdown", "textile", "restructuredtext"}

----------------------------------------------------------------------------
(* basic/blog/models.py *)

\* The names bound in the module's global namespace: its imports and its
\* three classes.
ModelsGlobals ==
    {"datetime", "models", "mark_safe", "_", "permalink", "User",
     "truncatewords_html", "TaggableManager", "MarkupField", "formatter",
     "PublicManager", "settings", "inlines", "Category", "Post", "BlogRoll"}

\* A bare name evaluated in a method of the module: a global bound to an
\* imported object or class (all truthy), or a NameError.
LoadGlobal(name) ==
    IF name \in ModelsGlobals THEN Ok(TRUE) ELSE Raise("NameError")

\* Post(): markup defaults to 'markdown', the nullable rendered fields to
\* None, the text fields to ''.
NewPost == [markup |-> "markdown", body |-> <<>>, tease |-> <<>>,
            body_rendered |-> PyNone, tease_rendered |-> PyNone]

\* One step of save(): the outcome of the method so far and the instance.
Step(p, out) == [post |-> p, out |-> out]

\* Lines 74-75: the inline shortcuts of body, then of tease.
RenderInlines(p) ==
    LET b == inlines(p.body) IN
    IF b.kind = "raise" THEN Step(p, b) ELSE
    LET p1 == [p EXCEPT !.body_rendered = b.val]
        t == inlines(p1.tease) IN
    IF t.kind = "raise" THEN Step(p1, t) ELSE
    Step([p1 EXCEPT !.tease_rendered = t.val], Ok(PyNone))

\* Lines 77-78 (filter_name = self.markup) and lines 81-82 (filter_name =
\* 'smartypants'): the formatter over body_rendered, then tease_rendered.
RenderMarkup(p, filter_name) ==
    LET b == formatter(p.body_rendered, filter_name) IN
    IF b.kind = "raise" THEN Step(p, b) ELSE
    LET p1 == [p EXCEPT !.body_rendered = b.val]
        t == formatter(p1.tease_rendered, filter_name) IN
    IF t.kind = "raise" THEN Step(p1, t) ELSE
    Step([p1 EXCEPT !.tease_rendered = t.val], Ok(PyNone))

\* Lines 74-82: the rendering part of save().  Line 80 evaluates the bare
\* name BLOG_SMARTYPANTS, which the module never binds.  Lines 81 and 82
\* each lack a closing parenthesis; they are read as the two calls they
\* spell, mark_safe(formatter(..., filter_name='smartypants')).
render(p) ==
    LET s1 == RenderInlines(p) IN
    IF s1.out.kind = "raise" THEN s1 ELSE
    LET s2 == RenderMarkup(s1.post, s1.post.markup) IN
    IF s2.out.kind = "raise" THEN s2 ELSE
    LET toggle == LoadGlobal("BLOG_SMARTYPANTS") IN
    IF toggle.kind = "raise" THEN Step(s2.post, toggle) ELSE
    IF toggle.val THEN RenderMarkup(s2.post, "smartypants") ELSE s2

\* The row Model.save writes: every field of the instance.
Row(p) == p

\* A save() that calls the real save first and renders afterwards.
save_writeFirst(p) ==
    LET r == render(p) IN
    [post |-> r.post, out |-> r.out, wrote |-> TRUE, row |-> Row(p)]

\* Post.save: render, then call the real save.  An exception of the
\* rendering part leaves the method before line 84.
save(p) ==
    LET r == render(p) IN
    IF r.out.kind = "raise"
    THEN [post |-> r.post, out |-> r.out, wrote |-> FALSE, row |-> Row(p)]
    ELSE [post |-> r.post, out |-> Ok(PyNone), wrote |-> TRUE,
          row |-> Row(r.post)]

\* Post.get_absolute_url: the permalink of the post.
get_absolute_url(p) == "/blog/post/"

\* Lines 102-106: the link to continue reading, a non-empty fragment.
ContinueLink(url, text) == <<"<p class=continue>", url, text>>

\* django.template.defaultfilters.truncatewords_html: the first n words,
\* with an ellipsis when words were cut; None is coerced to text first.
truncatewords_html(value, n) ==
    LET text == IF value = PyNone THEN <<"'None'">> ELSE value IN
    IF n <= 0 THEN <<>>
    ELSE IF Len(text) <= n THEN text
    ELSE SubSeq(text, 1, n) \o <<"...">>

\* "%s %s" % (excerpt, link)
Format(excerpt, link) == excerpt \o <<" ">> \o link

\* Post.excerpt.  Line 106 reads settings.BLOG_CONTINUE and line 112
\* settings.BLOG_AUTOEXCERPTS, attributes of basic.blog.settings.
excerpt(p) ==
    LET url == get_absolute_url(p)
        text == SettingsAttr("BLOG_CONTINUE") IN
    IF text.kind = "raise" THEN text ELSE
    LET continue_link == ContinueLink(url, text.val)
        auto == SettingsAttr("BLOG_AUTOEXCERPTS") IN
    IF auto.kind = "raise" THEN auto ELSE
    LET truncate == auto.val # 0 /\ ~Truthy(p.tease)
        ex == IF truncate THEN truncatewords_html(p.body_rendered, auto.val)
              ELSE p.tease_rendered
        link == IF truncate /\ ex = p.body_rendered THEN <<>>
                ELSE continue_link IN
    IF Truthy(ex) THEN Ok(Format(ex, link)) ELSE Ok(PyFalse)

----------------------------------------------------------------------------
(* Operations on the Post instance.  basic.blog.models imports             *)
(* basic.blog.settings, so the settings module is loaded before any Post   *)
(* exists.                                                                 *)

Did(op, out, wrote) ==
    [op |-> op, kind |-> out.kind, val |-> out.val, wrote |-> wrote,
     before |-> db]

SetBody ==
    /\ loaded
    /\ \E t \in RawTexts \ {post.body} : post' = [post EXCEPT !.body = t]
    /\ last' = Did("setattr", Ok(PyNone), FALSE)
    /\ UNCHANGED <<conf, site, loaded, blog, siteAtLoad, got, db>>

SetTease ==
    /\ loaded
    /\ \E t \in RawTexts \ {post.tease} : post' = [post EXCEPT !.tease = t]
    /\ last' = Did("setattr", Ok(PyNone), FALSE)
    /\ UNCHANGED <<conf, site, loaded, blog, siteAtLoad, got, db>>

SetMarkup ==
    /\ loaded
    /\ \E m \in MarkupNames \ {post.markup} :
          post' = [post EXCEPT !.markup = m]
    /\ last' = Did("setattr", Ok(PyNone), FALSE)
    /\ UNCHANGED <<conf, site, loaded, blog, siteAtLoad, got, db>>

\* body_rendered and tease_rendered are editable fields: a form or a caller
\* may assign them.
SetBodyRendered ==
    /\ loaded
    /\ post.body_rendered # Authored
    /\ post' = [post EXCEPT !.body_rendered = Authored]
    /\ last' = Did("setattr", Ok(PyNone), FALSE)
    /\ UNCHANGED <<conf, site, loaded, blog, siteAtLoad, got, db>>

SetTeaseRendered ==
    /\ loaded
    /\ post.tease_rendered # Authored
    /\ post' = [post EXCEPT !.tease_rendered = Authored]
    /\ last' = Did("setattr", Ok(PyNone), FALSE)
    /\ UNCHANGED <<conf, site, loaded, blog, siteAtLoad, got, db>>

\* post.save()
Save ==
    /\ loaded
    /\ post' = save(post).post
    /\ db' = IF save(post).wrote THEN <<save(post).row>> ELSE db
    /\ last' = Did("save", save(post).out, save(post).wrote)
    /\ UNCHANGED <<conf, site, loaded, blog, siteAtLoad, got>>

\* post.excerpt
Excerpt ==
    /\ loaded
    /\ last' = Did("excerpt", excerpt(post), FALSE)
    /\ UNCHANGED <<conf, site, loaded, blog, siteAtLoad, got, post, db>>

----------------------------------------------------------------------------
(* Specifications *)

InitWith(configs) ==
    /\ conf \in configs
    /\ site \in SiteNames
    /\ loaded = FALSE
    /\ blog = Unloaded
    /\ siteAtLoad = ""
    /\ got = NoRead
    /\ post = NewPost
    /\ db = <<>>
    /\ last = [op |-> "none", kind |-> "ok", val |-> PyNone, wrote |-> FALSE,
               before |-> <<>>]

Init == InitWith(ResolverConfigs \cup RendererConfigs)

SettingsNext == LoadSettings \/ RenameSite \/ ReadOption

PostNext ==
    \/ LoadSettings
    \/ SetBody
    \/ SetTease
    \/ SetMarkup
    \/ SetBodyRendered
    \/ SetTeaseRendered
    \/ Save
    \/ Excerpt

Next == SettingsNext \/ PostNext

Spec == Init /\ [][Next]_vars

\* The settings resolver under every deployment of its own options.
SpecSettings == InitWith(ResolverConfigs) /\ [][SettingsNext]_vars

\* The Post instance under every deployment of the options it consults.
SpecPost == InitWith(RendererConfigs) /\ [][PostNext]_vars

----------------------------------------------------------------------------
(* What the specification expects, stated apart from the code above *)

\* The typographic toggle, the auto-excerpt length and the continuation text
\* as the deployment configures them; an absent option counts as disabled.
Toggle == getattr(conf, "BLOG_SMARTYPANTS", FALSE)
AutoWords == getattr(conf, "BLOG_AUTOEXCERPTS", 0)

\* The exception of the first rendering stage that fails on p, or "none".
StageError(p) ==
    IF inlines(p.body).kind = "raise" THEN inlines(p.body).val
    ELSE IF inlines(p.tease).kind = "raise" THEN inlines(p.tease).val
    ELSE IF formatter(inlines(p.body).val, p.markup).kind = "raise"
         THEN formatter(inlines(p.body).val, p.markup).val
    ELSE IF formatter(inlines(p.tease).val, p.markup).kind = "raise"
         THEN formatter(inlines(p.tease).val, p.markup).val
    ELSE "none"

\* Inline expansion, then the markup formatter, then the typographic pass
\* when the toggle is on.  Used only where no stage fails.
ExpectedRender(text, markup, toggle) ==
    LET formatted == formatter(inlines(text).val, markup).val IN
    IF toggle THEN formatter(formatted, "smartypants").val ELSE formatted

IsPrefix(a, b) == Len(a) <= Len(b) /\ SubSeq(b, 1, Len(a)) = a
HasLink(text) == HasToken(text, "<p class=continue>")

----------------------------------------------------------------------------
(* Claims *)

\* C1: a save() whose stages do not fail returns and leaves the post
\* persisted with its raw fields and with body_rendered and tease_rendered
\* equal to the render of those raw fields, whatever the rendered fields held
\* before.  The code violates it: no save() reaches the persistence write.
C1_SavePersistsRender ==
    (last.op = "save" /\ StageError(post) = "none") =>
        /\ last.kind = "ok"
        /\ db = <<[post EXCEPT
                    !.body_rendered =
                        ExpectedRender(post.body, post.markup, Toggle),
                    !.tease_rendered =
                        ExpectedRender(post.tease, post.markup, Toggle)]>>

\* C2: after a save() whose stages do not fail, each rendered field is the
\* inline expansion of its raw field, passed through the formatter the markup
\* selector names, and then through the typographic pass exactly when the
\* toggle is enabled.  The code violates it with the toggle enabled.
C2_StagesInOrder ==
    (last.op = "save" /\ StageError(post) = "none") =>
        /\ post.body_rendered = ExpectedRender(post.body, post.markup, Toggle)
        /\ post.tease_rendered =
               ExpectedRender(post.tease, post.markup, Toggle)

\* C3: when a rendering stage fails during save(), save() ends by raising
\* that stage's exception, the real save is not called and the persisted
\* rows are those from before the call.
C3_StageFailurePropagates ==
    (last.op = "save" /\ StageError(post) # "none") =>
        /\ last.kind = "raise"
        /\ last.val = StageError(post)
        /\ ~last.wrote
        /\ db = last.before

\* C3 witness: a save() of a post whose markup selector names no registered
\* formatter has ended with the formatter's exception.
C3_Witness ==
    /\ last.op = "save"
    /\ post.markup = "restructuredtext"
    /\ inlines(post.body).kind = "ok"
    /\ inlines(post.tease).kind = "ok"
    /\ last.kind = "raise"
    /\ last.val = "ValueError"

\* C4: with a non-empty tease, excerpt returns the rendered tease followed
\* by the continue-reading link.  The code violates it: excerpt raises.
C4_TeaseExcerpt ==
    (last.op = "excerpt" /\ Truthy(post.tease)) =>
        /\ last.kind = "ok"
        /\ IsPrefix(post.tease_rendered, last.val)
        /\ HasLink(last.val)

\* C5: excerpt returns either the False sentinel or a non-empty text, and
\* the sentinel when the tease is empty and auto-excerpts are disabled.
\* The code violates it: excerpt raises.
C5_SentinelOrNonEmpty ==
    last.op = "excerpt" =>
        /\ last.kind = "ok"
        /\ last.val # <<>>
        /\ (~Truthy(post.tease) /\ AutoWords = 0) => last.val = PyFalse

\* C6: with an empty tease, an auto-excerpt length N > 0 and a rendered body
\* of at most N words, excerpt returns the rendered body with no
\* continue-reading link.  The code violates it: excerpt raises.
C6_ShortBodyNoLink ==
    (/\ last.op = "excerpt"
     /\ ~Truthy(post.tease)
     /\ AutoWords > 0
     /\ Truthy(post.body_rendered)
     /\ Len(post.body_rendered) <= AutoWords) =>
        /\ last.kind = "ok"
        /\ IsPrefix(post.body_rendered, last.val)
        /\ ~HasLink(last.val)

\* C7: once resolved, each recognized option holds its configured value when
\* one is present and its default otherwise: the site name, the description
\* text, 12 for page-size, page-size's resolved value for feed-size, False
\* for excerpts-enabled, excerpts-enabled's resolved value for
\* feed-excerpts-enabled, False for the rich editor; and a read returns it.
C7_ResolverDefaults ==
    loaded =>
        /\ \A n \in Recognized : conf[n].set => blog[n] = conf[n].val
        /\ ~conf.BLOG_NAME.set => blog.BLOG_NAME = siteAtLoad
        /\ ~conf.BLOG_DESCRIPTION.set =>
               blog.BLOG_DESCRIPTION = "A basic Django blog"
        /\ ~conf.BLOG_PAGESIZE.set => blog.BLOG_PAGESIZE = 12
        /\ ~conf.BLOG_FEEDSIZE.set =>
               blog.BLOG_FEEDSIZE = IF conf.BLOG_PAGESIZE.set
                                    THEN conf.BLOG_PAGESIZE.val ELSE 12
        /\ ~conf.BLOG_EXCERPTS.set => blog.BLOG_EXCERPTS = FALSE
        /\ ~conf.BLOG_FEEDEXCERPTS.set =>
               blog.BLOG_FEEDEXCERPTS = IF conf.BLOG_EXCERPTS.set
                                        THEN conf.BLOG_EXCERPTS.val ELSE FALSE
        /\ ~conf.BLOG_WMD.set => blog.BLOG_WMD = FALSE
        /\ got.name \in Recognized =>
               got.kind = "ok" /\ got.val = blog[got.name]

\* C7 witness: page-size is configured, feed-size is not, and a read of
\* feed-size returned the configured page-size.
C7_Witness ==
    /\ loaded
    /\ conf.BLOG_PAGESIZE.set
    /\ ~conf.BLOG_FEEDSIZE.set
    /\ got.name = "BLOG_FEEDSIZE"
    /\ got.val = conf.BLOG_PAGESIZE.val

\* C8: no option read has an error outcome: neither save() nor excerpt ends
\* with a NameError or an AttributeError, and no read of a recognized or
\* consulted option raises.  The code violates it.
C8_NoErrorOutcome ==
    /\ last.op \in {"save", "excerpt"} =>
           ~(/\ last.kind = "raise"
             /\ last.val \in {"NameError", "AttributeError"})
    /\ got.kind # "raise"

====
